---- MODULE Spec2Model ----
\* A model of crates/diff-tree/src/lib.rs (dulwich's _diff_tree extension):
\* _count_blocks, _is_tree and _merge_entries, each as a call that starts in
\* the idle state and ends in a done state with a return value.
EXTENDS Integers, Sequences, FiniteSets

VARIABLES pc, ret,
          obj, block_size, i, block, counts, hashed,
          entry,
          path, tree1, tree2, entries1, entries2, i1, i2, result

vars == <<pc, ret, obj, block_size, i, block, counts, hashed, entry,
          path, tree1, tree2, entries1, entries2, i1, i2, result>>

cbVars == <<obj, block_size, i, block, counts, hashed>>
meVars == <<path, tree1, tree2, entries1, entries2, i1, i2, result>>

----------------------------------------------------------------------------
\* Bounds of the model.

\* Longest chunk as_raw_chunks() delivers.
MaxChunkLen == 2
\* Largest number of chunks as_raw_chunks() delivers.
MaxChunks == 2
\* Largest value of dulwich.diff_tree._BLOCK_SIZE that is tried.
MaxBlockSize == 2
\* Number of distinct values the hash of a block can take.
HashMod == 5
\* Largest number of items a tree's iteritems() delivers.
MaxEntries == 2

----------------------------------------------------------------------------
\* Byte values and byte strings (sequences of byte values).

\* b'\n' and b'/'.
NL == 10
SLASH == 47

\* The bytes contents are made of: the newline, "a" and "b".
Bytes == {NL, 97, 98}
NameA == <<97>>
NameAB == <<97, 98>>
NameB == <<98>>

RECURSIVE BytesUpTo(_)
BytesUpTo(n) ==
    IF n = 0 THEN {<<>>}
    ELSE LET shorter == BytesUpTo(n - 1)
         IN  shorter \cup {Append(s, c) : s \in {t \in shorter : Len(t) = n - 1}, c \in Bytes}

RECURSIVE SeqsUpTo(_, _)
SeqsUpTo(S, n) ==
    IF n = 0 THEN {<<>>}
    ELSE LET shorter == SeqsUpTo(S, n - 1)
         IN  shorter \cup {Append(s, x) : s \in {t \in shorter : Len(t) = n - 1}, x \in S}

Range(s) == {s[k] : k \in DOMAIN s}

----------------------------------------------------------------------------
\* Return values: PyResult<T>.

NoValue == [kind |-> "novalue"]
NotReturned == [kind |-> "none", value |-> NoValue, error |-> ""]
Ok(v) == [kind |-> "ok", value |-> v, error |-> ""]
Err(e) == [kind |-> "err", value |-> NoValue, error |-> e]

----------------------------------------------------------------------------
\* _count_blocks

\* A chunk is a Python object: bytes, or something else (here a str).
BytesObj(s) == [kind |-> "bytes", val |-> s]
StrObj == [kind |-> "str", val |-> <<>>]
ChunkObjs == {BytesObj(s) : s \in BytesUpTo(MaxChunkLen)} \cup {StrObj}

\* What as_raw_chunks() returns: a list of objects, or something that is no list.
ListObj(items) == [kind |-> "list", items |-> items]
NotAList == [kind |-> "tuple", items |-> <<>>]
BlobChunks == {ListObj(cs) : cs \in SeqsUpTo(ChunkObjs, MaxChunks)} \cup {NotAList}

\* _BLOCK_SIZE is a positive module constant of dulwich.diff_tree (64 there).
BlockSizes == 1..MaxBlockSize

\* hash(bytes): a deterministic function of the block's bytes into a finite
\* set of keys, on which distinct blocks can collide.
RECURSIVE Hash(_)
Hash(s) ==
    IF s = <<>> THEN 0
    ELSE (Hash(SubSeq(s, 1, Len(s) - 1)) * 31 + s[Len(s)]) % HashMod

\* counts is a defaultdict(int): a function on the keys stored so far.
EmptyCounts == [k \in {} |-> 0]

GetItem(cnt, key) == IF key \in DOMAIN cnt THEN cnt[key] ELSE 0

\* add_hash storing the block's length instead of adding it to the stored value.
add_hash_overwrite(cnt, string) ==
    LET hash_obj == Hash(string)
    IN  [k \in DOMAIN cnt \cup {hash_obj} |->
            IF k = hash_obj THEN Len(string) ELSE cnt[k]]

add_hash(cnt, string) ==
    LET hash_obj == Hash(string)
        value == GetItem(cnt, hash_obj)
        n == Len(string)
    IN  [k \in DOMAIN cnt \cup {hash_obj} |->
            IF k = hash_obj THEN value + n ELSE cnt[k]]

\* One iteration of the inner loop: push the byte, and at a newline or a full
\* block hash the block and clear it. st = [block, counts, hashed].
PushByte(st, c, bs) ==
    LET b == Append(st.block, c)
    IN  IF c = NL \/ Len(b) = bs
        THEN [block |-> <<>>, counts |-> add_hash(st.counts, b),
              hashed |-> Append(st.hashed, b)]
        ELSE [st EXCEPT !.block = b]

\* The inner loop over one chunk's bytes.
RECURSIVE ScanBytes(_, _, _)
ScanBytes(st, chunk_str, bs) ==
    IF chunk_str = <<>> THEN st
    ELSE ScanBytes(PushByte(st, Head(chunk_str), bs), Tail(chunk_str), bs)

\* The inner loop hashing and clearing an unfinished block at the end of the chunk.
ScanChunk_flush(st, chunk_str, bs) ==
    LET s == ScanBytes(st, chunk_str, bs)
    IN  IF s.block # <<>>
        THEN [block |-> <<>>, counts |-> add_hash(s.counts, s.block),
              hashed |-> Append(s.hashed, s.block)]
        ELSE s

ScanChunk(st, chunk_str, bs) == ScanBytes(st, chunk_str, bs)

\* The end of the stream dropping the unfinished block.
FinalBlock_drop(st) == st

\* After the last chunk: a non-empty block is hashed as well.
FinalBlock(st) ==
    IF st.block # <<>>
    THEN [block |-> st.block, counts |-> add_hash(st.counts, st.block),
          hashed |-> Append(st.hashed, st.block)]
    ELSE st

Call_count_blocks ==
    /\ pc = "idle"
    /\ \E o \in BlobChunks, bs \in BlockSizes :
        /\ obj' = o
        /\ block_size' = bs
        /\ counts' = EmptyCounts
        /\ hashed' = <<>>
        /\ block' = <<>>
        /\ i' = 0
        /\ IF o.kind # "list"
           THEN /\ ret' = Err("TypeError")
                /\ pc' = "cb_done"
           ELSE /\ ret' = ret
                /\ pc' = "chunks"
    /\ UNCHANGED <<entry, meVars>>

\* The chunk loop returning the counts gathered so far at a chunk that is not bytes.
ChunkLoop_partial ==
    /\ pc = "chunks"
    /\ i < Len(obj.items)
    /\ LET chunk == obj.items[i + 1]
       IN  IF chunk.kind # "bytes"
           THEN /\ ret' = Ok(counts)
                /\ pc' = "cb_done"
                /\ UNCHANGED <<i, block, counts, hashed>>
           ELSE LET st == ScanChunk([block |-> block, counts |-> counts,
                                     hashed |-> hashed], chunk.val, block_size)
                IN  /\ block' = st.block
                    /\ counts' = st.counts
                    /\ hashed' = st.hashed
                    /\ i' = i + 1
                    /\ UNCHANGED <<pc, ret>>
    /\ UNCHANGED <<obj, block_size, entry, meVars>>

ChunkLoop ==
    /\ pc = "chunks"
    /\ i < Len(obj.items)
    /\ LET chunk == obj.items[i + 1]
       IN  IF chunk.kind # "bytes"
           THEN /\ ret' = Err("TypeError")
                /\ pc' = "cb_done"
                /\ UNCHANGED <<i, block, counts, hashed>>
           ELSE LET st == ScanChunk([block |-> block, counts |-> counts,
                                     hashed |-> hashed], chunk.val, block_size)
                IN  /\ block' = st.block
                    /\ counts' = st.counts
                    /\ hashed' = st.hashed
                    /\ i' = i + 1
                    /\ UNCHANGED <<pc, ret>>
    /\ UNCHANGED <<obj, block_size, entry, meVars>>

ChunkLoopEnd ==
    /\ pc = "chunks"
    /\ i = Len(obj.items)
    /\ LET st == FinalBlock([block |-> block, counts |-> counts, hashed |-> hashed])
       IN  /\ counts' = st.counts
           /\ hashed' = st.hashed
           /\ ret' = Ok(st.counts)
    /\ pc' = "cb_done"
    /\ UNCHANGED <<obj, block_size, i, block, entry, meVars>>

\* The whole of _count_blocks on a list of byte chunks, as a function.
RECURSIVE ScanChunks(_, _, _)
ScanChunks(st, chunks, bs) ==
    IF chunks = <<>> THEN st
    ELSE ScanChunks(ScanChunk(st, Head(chunks), bs), Tail(chunks), bs)

count_blocks(chunks, bs) ==
    FinalBlock(ScanChunks([block |-> <<>>, counts |-> EmptyCounts, hashed |-> <<>>],
                          chunks, bs)).counts

----------------------------------------------------------------------------
\* Python integers and u32. An integer is a sign and a magnitude
\* hi * 2^16 + lo, so that values beyond 32 bits can be written.

S_IFMT == 61440
S_IFDIR == 16384

Half == 2^16

IntObj(neg, hi, lo) == [kind |-> "int", neg |-> neg, hi |-> hi, lo |-> lo]
NoneObj == [kind |-> "None", neg |-> FALSE, hi |-> 0, lo |-> 0]
StrMode == [kind |-> "str", neg |-> FALSE, hi |-> 0, lo |-> 0]

\* extract::<u32>(): an integer in 0 .. 2^32 - 1, or an error.
extract_u32(o) ==
    IF o.kind # "int" THEN Err("TypeError")
    ELSE IF o.neg \/ o.hi >= Half THEN Err("OverflowError")
    ELSE Ok([hi |-> o.hi, lo |-> o.lo])

RECURSIVE BitAnd(_, _)
BitAnd(a, b) ==
    IF a = 0 \/ b = 0 THEN 0
    ELSE (a % 2) * (b % 2) + 2 * BitAnd(a \div 2, b \div 2)

U32(n) == [hi |-> n \div Half, lo |-> n % Half]
U32And(x, y) == [hi |-> BitAnd(x.hi, y.hi), lo |-> BitAnd(x.lo, y.lo)]

----------------------------------------------------------------------------
\* _is_tree

NoEntry == [kind |-> "None"]
\* An entry object: its mode attribute may be missing.
EntryObj(has_mode, mode) == [kind |-> "obj", has_mode |-> has_mode, mode |-> mode]

FormatBits == {0, 1, 4, 6, 8, 10, 12, 14}
PermBits == {0, 420, 493, 4095}
HighHalves == {0, 1, Half - 1, Half}
IntModes ==
    {IntObj(neg, hi, f * 4096 + p) :
        neg \in BOOLEAN, hi \in HighHalves, f \in FormatBits, p \in PermBits}
ModeObjs == {m \in IntModes : m.neg => (m.hi # 0 \/ m.lo # 0)} \cup {NoneObj, StrMode}
IsTreeArgs ==
    {NoEntry, EntryObj(FALSE, NoneObj)} \cup {EntryObj(TRUE, m) : m \in ModeObjs}

\* The test asking for the directory bit alone instead of the whole format field.
IsDirMode_bit(lmode) == U32And(lmode, U32(S_IFDIR)) # U32(0)

IsDirMode(lmode) == U32And(lmode, U32(S_IFMT)) = U32(S_IFDIR)

\* _is_tree answering false where the attribute access or the conversion fails.
is_tree_lenient(e) ==
    IF e.kind = "None" \/ ~e.has_mode \/ e.mode.kind = "None" THEN Ok(FALSE)
    ELSE LET lmode == extract_u32(e.mode)
         IN  IF lmode.kind = "err" THEN Ok(FALSE) ELSE Ok(IsDirMode(lmode.value))

is_tree(e) ==
    IF e.kind = "None" THEN Ok(FALSE)
    ELSE IF ~e.has_mode THEN Err("AttributeError")
    ELSE LET mode == e.mode
         IN  IF mode.kind = "None" THEN Ok(FALSE)
             ELSE LET lmode == extract_u32(mode)
                  IN  IF lmode.kind = "err" THEN lmode
                      ELSE Ok(IsDirMode(lmode.value))

Call_is_tree ==
    /\ pc = "idle"
    /\ \E e \in IsTreeArgs :
        /\ entry' = e
        /\ ret' = is_tree(e)
    /\ pc' = "it_done"
    /\ UNCHANGED <<cbVars, meVars>>

----------------------------------------------------------------------------
\* _merge_entries

NoTree == [kind |-> "None", items |-> <<>>]
TreeObj(items) == [kind |-> "tree", items |-> items]

\* What iteritems(True) yields: 3-tuples (name, mode, sha), or something else.
Tuple3(name, mode, sha) == [kind |-> "tuple3", name |-> name, mode |-> mode, sha |-> sha]
Tuple2 == [kind |-> "tuple2", name |-> <<>>, mode |-> NoneObj, sha |-> 0]

FileMode == IntObj(FALSE, 0, 33188)
DirMode == IntObj(FALSE, 0, S_IFDIR)

TreeItems ==
    { Tuple3(NameA, FileMode, 1), Tuple3(NameAB, FileMode, 2),
      Tuple3(NameB, FileMode, 3), Tuple3(NameB, DirMode, 4),
      Tuple3(NameB, IntObj(TRUE, 0, 1), 5), Tuple2 }

Trees == {TreeObj(s) : s \in SeqsUpTo(TreeItems, MaxEntries)} \cup {NoTree}
Prefixes == {<<>>, NameB}

TreeEntry(p, mode, sha) == [kind |-> "TreeEntry", path |-> p, mode |-> mode, sha |-> sha]
Pair(e1, e2) == <<e1, e2>>

\* The path built with the separator also for the empty prefix.
new_path_always_sep(prefix, name) == prefix \o <<SLASH>> \o name

new_path(prefix, name) ==
    (IF prefix # <<>> THEN prefix \o <<SLASH>> ELSE <<>>) \o name

\* item.extract::<(Vec<u8>, u32, PyObject)>() and the TreeEntry built from it.
entry_of_item(prefix, item) ==
    IF item.kind # "tuple3" THEN Err("TypeError")
    ELSE LET mode == extract_u32(item.mode)
         IN  IF mode.kind = "err" THEN mode
             ELSE Ok(TreeEntry(new_path(prefix, item.name),
                               IntObj(FALSE, mode.value.hi, mode.value.lo), item.sha))

RECURSIVE collect_entries(_, _, _)
collect_entries(prefix, items, acc) ==
    IF items = <<>> THEN Ok(acc)
    ELSE LET e == entry_of_item(prefix, Head(items))
         IN  IF e.kind = "err" THEN e
             ELSE collect_entries(prefix, Tail(items), Append(acc, e.value))

tree_entries(prefix, tree) ==
    IF tree.kind = "None" THEN Ok(<<>>)
    ELSE collect_entries(prefix, tree.items, <<>>)

\* <[u8]>::cmp: byte-lexicographic, a proper prefix sorts first.
RECURSIVE BytesCmp(_, _)
BytesCmp(a, b) ==
    IF a = <<>> /\ b = <<>> THEN "Equal"
    ELSE IF a = <<>> THEN "Less"
    ELSE IF b = <<>> THEN "Greater"
    ELSE IF Head(a) < Head(b) THEN "Less"
    ELSE IF Head(a) > Head(b) THEN "Greater"
    ELSE BytesCmp(Tail(a), Tail(b))

\* The comparison with its arguments exchanged.
entry_path_cmp_swapped(e1, e2) == BytesCmp(e2.path, e1.path)

entry_path_cmp(e1, e2) == BytesCmp(e1.path, e2.path)

Call_merge_entries ==
    /\ pc = "idle"
    /\ \E p \in Prefixes, t1 \in Trees, t2 \in Trees :
        LET r1 == tree_entries(p, t1)
            r2 == tree_entries(p, t2)
        IN  /\ path' = p
            /\ tree1' = t1
            /\ tree2' = t2
            /\ result' = <<>>
            /\ i1' = 0
            /\ i2' = 0
            /\ IF r1.kind = "err"
               THEN /\ ret' = r1
                    /\ pc' = "me_done"
                    /\ UNCHANGED <<entries1, entries2>>
               ELSE IF r2.kind = "err"
               THEN /\ ret' = r2
                    /\ pc' = "me_done"
                    /\ entries1' = r1.value
                    /\ UNCHANGED entries2
               ELSE /\ entries1' = r1.value
                    /\ entries2' = r2.value
                    /\ pc' = "while1"
                    /\ UNCHANGED ret
    /\ UNCHANGED <<cbVars, entry>>

\* The first loop leaving the second cursor in place on equal paths.
MergeStep_keep_i2(es1, es2, c1, c2) ==
    LET cmp == BytesCmp(es1[c1 + 1].path, es2[c2 + 1].path)
    IN  IF cmp = "Equal"
        THEN [pair |-> Pair(es1[c1 + 1], es2[c2 + 1]), i1 |-> c1 + 1, i2 |-> c2]
        ELSE IF cmp = "Less"
        THEN [pair |-> Pair(es1[c1 + 1], NoEntry), i1 |-> c1 + 1, i2 |-> c2]
        ELSE [pair |-> Pair(NoEntry, es2[c2 + 1]), i1 |-> c1, i2 |-> c2 + 1]

\* The pair one iteration of the first loop pushes, and the cursors after it.
MergeStep(es1, es2, c1, c2) ==
    LET cmp == entry_path_cmp(es1[c1 + 1], es2[c2 + 1])
    IN  IF cmp = "Equal"
        THEN [pair |-> Pair(es1[c1 + 1], es2[c2 + 1]), i1 |-> c1 + 1, i2 |-> c2 + 1]
        ELSE IF cmp = "Less"
        THEN [pair |-> Pair(es1[c1 + 1], NoEntry), i1 |-> c1 + 1, i2 |-> c2]
        ELSE [pair |-> Pair(NoEntry, es2[c2 + 1]), i1 |-> c1, i2 |-> c2 + 1]

While1 ==
    /\ pc = "while1"
    /\ i1 < Len(entries1) /\ i2 < Len(entries2)
    /\ LET s == MergeStep(entries1, entries2, i1, i2)
       IN  /\ result' = Append(result, s.pair)
           /\ i1' = s.i1
           /\ i2' = s.i2
    /\ UNCHANGED <<pc, ret, cbVars, entry, path, tree1, tree2, entries1, entries2>>

While1End ==
    /\ pc = "while1"
    /\ ~(i1 < Len(entries1) /\ i2 < Len(entries2))
    /\ pc' = "while2"
    /\ UNCHANGED <<ret, cbVars, entry, meVars>>

Rest1Pair(es1, c1) == Pair(es1[c1 + 1], NoEntry)

While2 ==
    /\ pc = "while2"
    /\ i1 < Len(entries1)
    /\ result' = Append(result, Rest1Pair(entries1, i1))
    /\ i1' = i1 + 1
    /\ UNCHANGED <<pc, ret, cbVars, entry, path, tree1, tree2, entries1, entries2, i2>>

While2End ==
    /\ pc = "while2"
    /\ ~(i1 < Len(entries1))
    /\ pc' = "while3"
    /\ UNCHANGED <<ret, cbVars, entry, meVars>>

\* The third loop putting the entry on the left side, as the second loop does.
Rest2Pair_left(es2, c2) == Pair(es2[c2 + 1], NoEntry)

Rest2Pair(es2, c2) == Pair(NoEntry, es2[c2 + 1])

While3 ==
    /\ pc = "while3"
    /\ i2 < Len(entries2)
    /\ result' = Append(result, Rest2Pair(entries2, i2))
    /\ i2' = i2 + 1
    /\ UNCHANGED <<pc, ret, cbVars, entry, path, tree1, tree2, entries1, entries2, i1>>

While3End ==
    /\ pc = "while3"
    /\ ~(i2 < Len(entries2))
    /\ ret' = Ok(result)
    /\ pc' = "me_done"
    /\ UNCHANGED <<cbVars, entry, meVars>>

----------------------------------------------------------------------------
Init ==
    /\ pc = "idle"
    /\ ret = NotReturned
    /\ obj = NotAList
    /\ block_size = 1
    /\ i = 0
    /\ block = <<>>
    /\ counts = EmptyCounts
    /\ hashed = <<>>
    /\ entry = NoEntry
    /\ path = <<>>
    /\ tree1 = NoTree
    /\ tree2 = NoTree
    /\ entries1 = <<>>
    /\ entries2 = <<>>
    /\ i1 = 0
    /\ i2 = 0
    /\ result = <<>>

NextBlocks == Call_count_blocks \/ ChunkLoop \/ ChunkLoopEnd

NextIsTree == Call_is_tree

NextMerge ==
    \/ Call_merge_entries
    \/ While1 \/ While1End
    \/ While2 \/ While2End
    \/ While3 \/ While3End

Next == NextBlocks \/ NextIsTree \/ NextMerge

SpecBlocks == Init /\ [][NextBlocks]_vars
SpecIsTree == Init /\ [][NextIsTree]_vars
SpecMerge == Init /\ [][NextMerge]_vars
Spec == Init /\ [][Next]_vars

----------------------------------------------------------------------------
\* Properties of _count_blocks (under SpecBlocks).

RECURSIVE Concat(_)
Concat(chunks) ==
    IF chunks = <<>> THEN <<>> ELSE Head(chunks).val \o Concat(Tail(chunks))

AllBytes(o) == o.kind = "list" /\ \A k \in DOMAIN o.items : o.items[k].kind = "bytes"

Content == Concat(obj.items)

Returned == pc = "cb_done" /\ ret.kind = "ok"

\* The reference segmentation of a content: the shortest prefix that ends in a
\* newline or is bs bytes long is a block, and so on; what is left is a block.
FirstCut(s, bs) ==
    LET ends == {k \in 1..Len(s) : s[k] = NL \/ k = bs}
    IN  IF ends = {} THEN Len(s) ELSE CHOOSE k \in ends : \A j \in ends : k <= j

RECURSIVE RefBlocks(_, _)
RefBlocks(s, bs) ==
    IF s = <<>> THEN <<>>
    ELSE LET k == FirstCut(s, bs)
         IN  <<SubSeq(s, 1, k)>> \o RefBlocks(SubSeq(s, k + 1, Len(s)), bs)

RECURSIVE SumLens(_, _)
SumLens(blocks, ks) ==
    IF ks = {} THEN 0
    ELSE LET k == CHOOSE x \in ks : TRUE
         IN  Len(blocks[k]) + SumLens(blocks, ks \ {k})

\* The mapping of a list of blocks: per hash, the bytes of the blocks with it.
RefCounts(blocks) ==
    [h \in {Hash(blocks[k]) : k \in DOMAIN blocks} |->
        SumLens(blocks, {k \in DOMAIN blocks : Hash(blocks[k]) = h})]

RECURSIVE SumValues(_, _)
SumValues(cnt, ks) ==
    IF ks = {} THEN 0
    ELSE LET k == CHOOSE x \in ks : TRUE
         IN  cnt[k] + SumValues(cnt, ks \ {k})

\* C4: the mapping _count_blocks returns for a list of chunks is the one it
\* returns for their concatenation given as one chunk, so any two splittings
\* of a content give the same mapping; and in between two chunks the block
\* buffer holds the unfinished block of the bytes read so far, unflushed.
C4_ChunkBoundaryInvariance ==
    /\ Returned => ret.value = count_blocks(<<Content>>, block_size)
    /\ (pc = "chunks" /\ AllBytes(ListObj(SubSeq(obj.items, 1, i)))) =>
          hashed \o (IF block # <<>> THEN <<block>> ELSE <<>>)
             = RefBlocks(Concat(SubSeq(obj.items, 1, i)), block_size)

\* A call has returned for two non-empty chunks, the first of which ends inside a block.
C4_Witness ==
    /\ Returned
    /\ Len(obj.items) = 2
    /\ LET c1 == obj.items[1].val
       IN  /\ c1 # <<>>
           /\ c1[Len(c1)] # NL
           /\ Len(c1) < block_size
    /\ obj.items[2].val # <<>>

\* C5: the values of the returned mapping add up to the number of bytes of
\* the content, and an empty content gives the empty mapping.
C5_Conservation ==
    Returned =>
        /\ SumValues(ret.value, DOMAIN ret.value) = Len(Content)
        /\ (Content = <<>> => ret.value = EmptyCounts)

\* A call has returned for a content with two distinct blocks of the same
\* hash and an unfinished last block.
C5_Witness ==
    /\ Returned
    /\ \E j, k \in DOMAIN hashed : hashed[j] # hashed[k] /\ Hash(hashed[j]) = Hash(hashed[k])
    /\ LET last == hashed[Len(hashed)]
       IN  last[Len(last)] # NL /\ Len(last) < block_size

\* C9: the blocks hashed are the reference segmentation of the content, the
\* mapping is the one of these blocks, every block is non-empty, at most
\* block_size bytes long and has a newline at most as its last byte, and a
\* non-empty content without newline and shorter than block_size gives one
\* entry, whose value is the content's length.
C9_Segmentation ==
    Returned =>
        /\ hashed = RefBlocks(Content, block_size)
        /\ ret.value = RefCounts(hashed)
        /\ \A k \in DOMAIN hashed :
              LET b == hashed[k]
              IN  /\ b # <<>>
                  /\ Len(b) <= block_size
                  /\ \A j \in 1..(Len(b) - 1) : b[j] # NL
        /\ (Content # <<>> /\ Len(Content) < block_size
                /\ \A k \in DOMAIN Content : Content[k] # NL) =>
              /\ Cardinality(DOMAIN ret.value) = 1
              /\ \A h \in DOMAIN ret.value : ret.value[h] = Len(Content)

\* A call has returned for a content with a block ended by a newline, a block
\* ended by its size, and an unfinished last block.
C9_Witness ==
    /\ Returned
    /\ \E k \in DOMAIN hashed : hashed[k][Len(hashed[k])] = NL
    /\ \E k \in DOMAIN hashed :
          hashed[k][Len(hashed[k])] # NL /\ Len(hashed[k]) = block_size /\ k < Len(hashed)
    /\ LET last == hashed[Len(hashed)]
       IN  last[Len(last)] # NL /\ Len(last) < block_size

----------------------------------------------------------------------------
\* Properties of _is_tree (under SpecIsTree).

\* The mode is an integer of 32 unsigned bits.
WellFormedMode(m) == m.kind = "int" /\ ~m.neg /\ m.hi < 2^16

\* Bits 12..15 of a mode, the format field.
FormatField(m) == (m.lo \div 2^12) % 2^4

HasMode(e) == e.kind = "obj" /\ e.has_mode

\* The mode attribute is missing, or is neither None nor a 32-bit unsigned integer.
MalformedEntry(e) ==
    /\ e.kind = "obj"
    /\ \/ ~e.has_mode
       \/ e.mode.kind # "None" /\ ~WellFormedMode(e.mode)

\* C6: _is_tree returns false for None and for an entry whose mode is None,
\* and for an entry whose mode is a 32-bit unsigned integer it returns whether
\* the format field of the mode is 4 (0o040000), whatever the other bits.
C6_IsTreeResult ==
    pc = "it_done" =>
        /\ entry.kind = "None" => ret = Ok(FALSE)
        /\ (HasMode(entry) /\ entry.mode.kind = "None") => ret = Ok(FALSE)
        /\ (HasMode(entry) /\ WellFormedMode(entry.mode)) =>
              ret = Ok(FormatField(entry.mode) = 4)

\* _is_tree has returned true for a directory mode with permission bits and
\* bits above the format field set.
C6_Witness ==
    /\ pc = "it_done"
    /\ ret = Ok(TRUE)
    /\ entry.mode.hi = 2^16 - 1
    /\ entry.mode.lo % 2^12 = 493

\* C7 as stated: _is_tree never ends in an error, a missing or malformed mode
\* gives false.
C7_NeverAnError ==
    pc = "it_done" =>
        /\ ret.kind = "ok"
        /\ MalformedEntry(entry) => ret = Ok(FALSE)

\* C7 as amended: _is_tree ends in an error, and returns no value, exactly
\* for an entry without a mode attribute or with a mode that is neither None
\* nor a 32-bit unsigned integer; it returns false for None and for a None mode.
C7_ErrorsPropagate ==
    pc = "it_done" =>
        /\ MalformedEntry(entry) <=> ret.kind = "err"
        /\ ret.kind = "err" => ret.value = NoValue
        /\ (entry.kind = "None" \/ (HasMode(entry) /\ entry.mode.kind = "None")) =>
              ret = Ok(FALSE)

\* _is_tree has ended in an error for an integer mode that has the directory
\* format but does not fit 32 bits.
C7_Witness ==
    /\ pc = "it_done"
    /\ ret.kind = "err"
    /\ HasMode(entry)
    /\ entry.mode.kind = "int"
    /\ entry.mode.hi = 2^16
    /\ FormatField(entry.mode) = 4

----------------------------------------------------------------------------
\* Properties of _merge_entries (under SpecMerge).

\* The item decomposes into (name, mode, object id).
Decomposes(item) == item.kind = "tuple3" /\ WellFormedMode(item.mode)

WellFormedTree(t) == \A k \in DOMAIN t.items : Decomposes(t.items[k])

\* The entries of a tree under a prefix: the name behind the prefix and a
\* separator, or the name alone for the empty prefix; mode and object id as given.
JoinPath(prefix, name) ==
    IF Len(prefix) = 0 THEN name ELSE prefix \o <<SLASH>> \o name

EntriesOf(prefix, t) ==
    [k \in 1..Len(t.items) |->
        TreeEntry(JoinPath(prefix, t.items[k].name), t.items[k].mode, t.items[k].sha)]

StrictlyAscending(es) ==
    \A k \in 1..(Len(es) - 1) : BytesCmp(es[k].path, es[k + 1].path) = "Less"

Merged == pc = "me_done" /\ ret.kind = "ok"

SortedCall ==
    /\ WellFormedTree(tree1) /\ WellFormedTree(tree2)
    /\ StrictlyAscending(EntriesOf(path, tree1))
    /\ StrictlyAscending(EntriesOf(path, tree2))

Present(e) == e # NoEntry

PresentPath(pair) == IF Present(pair[1]) THEN pair[1].path ELSE pair[2].path

RECURSIVE Side(_, _)
\* The entries on side s (1 left, 2 right) of a list of pairs, absences removed.
Side(pairs, s) ==
    IF pairs = <<>> THEN <<>>
    ELSE (IF Present(Head(pairs)[s]) THEN <<Head(pairs)[s]>> ELSE <<>>) \o Side(Tail(pairs), s)

\* C1: for trees that are absent or strictly ascending by path, every entry
\* of tree1 is the left side of exactly one pair of the output, every entry of
\* tree2 the right side of exactly one pair, and the pairs hold nothing else.
C1_EveryEntryOnce ==
    (Merged /\ SortedCall) =>
        LET out == ret.value
            es1 == EntriesOf(path, tree1)
            es2 == EntriesOf(path, tree2)
        IN  /\ \A k \in DOMAIN es1 :
                  Cardinality({j \in DOMAIN out : out[j][1] = es1[k]}) = 1
            /\ \A k \in DOMAIN es2 :
                  Cardinality({j \in DOMAIN out : out[j][2] = es2[k]}) = 1
            /\ \A j \in DOMAIN out :
                  /\ out[j][1] \in Range(es1) \cup {NoEntry}
                  /\ out[j][2] \in Range(es2) \cup {NoEntry}
                  /\ Present(out[j][1]) \/ Present(out[j][2])

\* A merge of two sorted trees of two entries each has returned, with a pair
\* of two entries, a pair with the left entry alone and one with the right alone.
C1_Witness ==
    /\ Merged /\ SortedCall
    /\ Len(tree1.items) = 2 /\ Len(tree2.items) = 2
    /\ \E j \in DOMAIN ret.value : Present(ret.value[j][1]) /\ Present(ret.value[j][2])
    /\ \E j \in DOMAIN ret.value : Present(ret.value[j][1]) /\ ~Present(ret.value[j][2])
    /\ \E j \in DOMAIN ret.value : ~Present(ret.value[j][1]) /\ Present(ret.value[j][2])

\* C2: for trees that are absent or strictly ascending by path, the output is
\* strictly increasing by the path of the present side of each pair.
C2_OutputAscending ==
    (Merged /\ SortedCall) =>
        \A j \in 1..(Len(ret.value) - 1) :
            BytesCmp(PresentPath(ret.value[j]), PresentPath(ret.value[j + 1])) = "Less"

\* A merge of two sorted trees has returned whose output starts with an entry
\* of tree2 alone and goes on with an entry of tree1; the prefix is not empty.
C2_Witness ==
    /\ Merged /\ SortedCall
    /\ path # <<>>
    /\ Len(ret.value) >= 3
    /\ ~Present(ret.value[1][1])
    /\ Present(ret.value[2][1])

\* C3: with tree1 absent the output is one pair (None, e) per entry of tree2,
\* in tree2's order, e having the path prefix/name (name alone for the empty
\* prefix) and the item's mode and object id; likewise (e, None) with tree2
\* absent; and with both absent the output is empty.
C3_OneSided ==
    pc = "me_done" =>
        /\ (tree1 = NoTree /\ WellFormedTree(tree2)) =>
              ret = Ok([k \in 1..Len(tree2.items) |->
                          <<NoEntry, EntriesOf(path, tree2)[k]>>])
        /\ (tree2 = NoTree /\ WellFormedTree(tree1)) =>
              ret = Ok([k \in 1..Len(tree1.items) |->
                          <<EntriesOf(path, tree1)[k], NoEntry>>])
        /\ (tree1 = NoTree /\ tree2 = NoTree) => ret = Ok(<<>>)

\* A merge with tree1 absent and the empty prefix has returned for a tree2
\* of two entries that are not in ascending order.
C3_Witness ==
    /\ pc = "me_done"
    /\ tree1 = NoTree
    /\ path = <<>>
    /\ WellFormedTree(tree2)
    /\ Len(tree2.items) = 2
    /\ ~StrictlyAscending(EntriesOf(path, tree2))

\* C10, at every step of a merge of any two entry lists: one pair has been
\* pushed per iteration and the iterations are at most len1 + len2; every
\* pair has a side present, and equal paths when it has both; the left sides
\* are the entries of tree1 before cursor 1, in order, the right sides those
\* of tree2 before cursor 2; and the call returns the pairs with both cursors
\* at the end.
C10_MergeInvariant ==
    pc \in {"while1", "while2", "while3", "me_done"} /\ ret.kind # "err" =>
        /\ Len(result) <= i1 + i2
        /\ i1 <= Len(entries1) /\ i2 <= Len(entries2)
        /\ \A j \in DOMAIN result :
              /\ Present(result[j][1]) \/ Present(result[j][2])
              /\ (Present(result[j][1]) /\ Present(result[j][2])) =>
                    result[j][1].path = result[j][2].path
        /\ Side(result, 1) = SubSeq(entries1, 1, i1)
        /\ Side(result, 2) = SubSeq(entries2, 1, i2)
        /\ entries1 = EntriesOf(path, tree1)
        /\ entries2 = EntriesOf(path, tree2)
        /\ pc = "me_done" =>
              /\ ret = Ok(result)
              /\ i1 = Len(entries1) /\ i2 = Len(entries2)

\* C10, each iteration: it pushes one pair and advances a cursor.
C10_MergeProgress ==
    (result' # result) =>
        /\ Len(result') = Len(result) + 1
        /\ i1' >= i1 /\ i2' >= i2
        /\ i1' + i2' > i1 + i2

\* C10: the merge invariant holds in every state and every iteration makes
\* progress, for any two entry lists, sorted or not.
C10_MergeWithoutSortedness == [](C10_MergeInvariant) /\ [][C10_MergeProgress]_vars

\* A merge has returned for a tree1 of two entries in descending order and a
\* tree2 that has an entry of the same path as one of them.
C10_Witness ==
    /\ Merged
    /\ Len(entries1) = 2
    /\ BytesCmp(entries1[1].path, entries1[2].path) = "Greater"
    /\ Len(entries2) >= 1
    /\ \E j \in DOMAIN result : Present(result[j][1]) /\ Present(result[j][2])

----------------------------------------------------------------------------
\* Failure of a call (under Spec).

BadChunks(o) == o.kind # "list" \/ \E k \in DOMAIN o.items : o.items[k].kind # "bytes"

\* C8: a call has a return value only when it has ended, and then it is a
\* result or an error without a value; _count_blocks ends with a type error
\* and no mapping when as_raw_chunks() gives no list or some chunk is not
\* bytes, and with the mapping otherwise; _merge_entries ends with an error
\* and no pairs when an item of either tree does not decompose, and with the
\* list of all pairs otherwise.
C8_AtomicFailure ==
    /\ ret.kind # "none" <=> pc \in {"cb_done", "it_done", "me_done"}
    /\ ret.kind \in {"none", "err"} => ret.value = NoValue
    /\ pc = "cb_done" =>
          IF BadChunks(obj) THEN ret = Err("TypeError") ELSE ret = Ok(counts)
    /\ pc = "me_done" =>
          IF WellFormedTree(tree1) /\ WellFormedTree(tree2)
          THEN ret = Ok(result) /\ i1 = Len(entries1) /\ i2 = Len(entries2)
          ELSE ret.kind = "err" /\ result = <<>>

\* _count_blocks has ended in an error at its second chunk, with bytes of the
\* first chunk counted.
C8_Witness ==
    /\ pc = "cb_done"
    /\ ret = Err("TypeError")
    /\ i = 1
    /\ counts # EmptyCounts

====
